---- MODULE Spec2Model ----
(***************************************************************************)
(* APS M2000 power analyzer clients (m2000_lan.py, m2000_rs232.py,         *)
(* m2000_usb.py) and the web stream worker (m2000_web_ui.py).              *)
(*                                                                         *)
(* One client object is modelled.  Its transport kind is fixed at          *)
(* construction.  Texts that the code inspects character by character      *)
(* (replies) are sequences of one-character strings; commands, which the   *)
(* code only concatenates, are TLA+ strings.                               *)
(***************************************************************************)
EXTENDS Integers, Sequences, FiniteSets, TLC

\* ---------------------------------------------------------------- bounds
MaxIdnLen == 3
MaxReplyLen == 3
MaxChannels == 2
MaxParams == 2
MaxIters == 3
MaxIoTicks == 2
MaxHosts == 2
MaxWebIters == 2
MaxConnects == 2
MaxConfigures == 1
MaxCmdLen == 130
MaxUsbReply == 3
MaxEmptyReads == 2
MaxExp == 7

\* ------------------------------------------------------------- alphabets
Kinds == {"LAN", "Serial", "USB"}
IdnChars == {"A", "P", "S"}
ReplyChars == {"1", ",", "x"}
Digits == {"0", "1", "2", "3", "4", "5", "6", "7", "8", "9"}
Whitespace == {" ", "\t", "\n", "\r"}
Channels == {"CH1", "CH2"}
Parameters == {"V", "PF"}

SeqsUpTo(S, n) == UNION {[1..m -> S] : m \in 0..n}
NonEmptySeqsUpTo(S, n) == UNION {[1..m -> S] : m \in 1..n}

IdnTexts == SeqsUpTo(IdnChars, MaxIdnLen)
ReplyTexts == SeqsUpTo(ReplyChars, MaxReplyLen)
ChannelLists == NonEmptySeqsUpTo(Channels, MaxChannels)
ParameterLists == NonEmptySeqsUpTo(Parameters, MaxParams)

\* What the instrument side does with one read: a line ended by CR LF or by
\* LF alone, the stream closed after some text ("eof"), the stream silent
\* after some text until the read timeout ("stall"), or an I/O error.
RxOf(texts) ==
  [t : {"line"}, text : texts, term : {"CRLF", "LF"}]
    \cup [t : {"eof", "stall"}, text : texts, term : {"NONE"}]
    \cup {[t |-> "error", text |-> <<>>, term |-> "NONE"]}

\* What the transport does during one call that writes up to n commands
\* and then reads once: which write fails (0: none) and how, and, when no
\* write fails, what the read meets.
NoRx == [t |-> "error", text |-> <<>>, term |-> "NONE"]
Transfers(n, texts) ==
  [wfail : {0}, whow : {"error"}, rx : RxOf(texts)]
    \cup [wfail : 1..n, whow : {"timeout", "error"}, rx : {NoRx}]

\* ------------------------------------------------------- text operations
\* Python: 'APS' in response
ContainsAPS(s) ==
  \E i \in 1..(Len(s) - 2) : s[i] = "A" /\ s[i + 1] = "P" /\ s[i + 2] = "S"

\* Python: s[:-2]
DropLast2(s) == IF Len(s) <= 2 THEN <<>> ELSE SubSeq(s, 1, Len(s) - 2)

\* Python: s.replace(";", "\r\n")
RECURSIVE ReplaceSemicolons(_)
ReplaceSemicolons(s) ==
  IF s = <<>> THEN <<>>
  ELSE (IF Head(s) = ";" THEN <<"\r", "\n">> ELSE <<Head(s)>>)
         \o ReplaceSemicolons(Tail(s))

\* Python: s.strip()
RECURSIVE LStrip(_)
LStrip(s) ==
  IF s # <<>> /\ Head(s) \in Whitespace THEN LStrip(Tail(s)) ELSE s

RECURSIVE RStrip(_)
RStrip(s) ==
  IF s # <<>> /\ s[Len(s)] \in Whitespace
  THEN RStrip(SubSeq(s, 1, Len(s) - 1))
  ELSE s

Strip(s) == RStrip(LStrip(s))

\* The characters of s other than carriage returns.
RECURSIVE DropCR(_)
DropCR(s) ==
  IF s = <<>> THEN <<>>
  ELSE (IF Head(s) = "\r" THEN <<>> ELSE <<Head(s)>>) \o DropCR(Tail(s))

\* Python: s.split(',')
RECURSIVE Split(_)
Split(s) ==
  IF \E i \in 1..Len(s) : s[i] = ","
  THEN LET i == CHOOSE j \in 1..Len(s) :
                  s[j] = "," /\ \A k \in 1..(j - 1) : s[k] # ","
       IN  <<SubSeq(s, 1, i - 1)>> \o Split(SubSeq(s, i + 1, Len(s)))
  ELSE <<s>>

\* Python: float(field) succeeds (over the reply alphabet: a non-empty run
\* of digits; the empty string and any other token raise ValueError).
IsFloat(f) == f # <<>> /\ \A i \in 1..Len(f) : f[i] \in Digits

DigitValue(c) ==
  CASE c = "0" -> 0 [] c = "1" -> 1 [] c = "2" -> 2 [] c = "3" -> 3
    [] c = "4" -> 4 [] c = "5" -> 5 [] c = "6" -> 6 [] c = "7" -> 7
    [] c = "8" -> 8 [] c = "9" -> 9

RECURSIVE ToNumber(_)
ToNumber(f) ==
  IF f = <<>> THEN 0
  ELSE 10 * ToNumber(SubSeq(f, 1, Len(f) - 1)) + DigitValue(f[Len(f)])

\* try: float(v) except ValueError: v
Coerce(f) ==
  IF IsFloat(f) THEN [t |-> "float", v |-> ToNumber(f)]
  ELSE [t |-> "str", v |-> f]

\* The bytes the instrument put on the line for one reply.
TermBytes(term) ==
  CASE term = "CRLF" -> <<"\r", "\n">>
    [] term = "LF" -> <<"\n">>
    [] OTHER -> <<>>

\* ------------------------------------------------------------ the client
\* The client object: connected (self.connected) and handle, the state of
\* the object that self.socket / self.connection / self.device refers to:
\*   "None"      no object;
\*   "unopened"  an object with no link to the instrument (LAN: a socket
\*               whose connect() failed; USB: hid.device() never opened);
\*   "open"      a live link;
\*   "closed"    an object whose close() was called (Serial keeps the
\*               reference after close()).
Handles == {"None", "unopened", "open", "closed"}

None == [some |-> FALSE, text |-> <<>>]
Some(s) == [some |-> TRUE, text |-> s]
\* Python truthiness of a reply: neither None nor ''.
Truthy(v) == v.some /\ v.text # <<>>

\* The handle owns an operating-system resource that only close() (or the
\* runtime's finalizer) gives back.
HoldsResource(k, h) == h = "open" \/ (k = "LAN" /\ h = "unopened")

\* send(command) appends the terminator of the transport.
Terminator(k) == IF k = "Serial" THEN "\r\n" ELSE "\n"

\* (a guard that lets every call pass)
NotConnected_no_guard(k, o) == "none"

\* The guard at the top of send_command and read_response:
\*   LAN, USB:  if not self.connected or not self.socket / self.device
\*   Serial:    if not self.connected or not self.connection.is_open
\* (on Serial, connection None with connected True is an AttributeError).
\* The result is the exception the guard raises, "none" if it lets the call pass.

NotConnected(k, o) ==
  IF k = "Serial"
  THEN IF ~o.connected THEN "NotConnected"
       ELSE IF o.handle = "None" THEN "AttributeError"
       ELSE IF o.handle # "open" THEN "NotConnected"
       ELSE "none"
  ELSE IF ~o.connected \/ o.handle = "None" THEN "NotConnected" ELSE "none"

\* Python: command.endswith(suffix)
EndsWith(command, suffix) ==
  /\ Len(command) >= Len(suffix)
  /\ SubSeq(command, Len(command) - Len(suffix) + 1, Len(command)) = suffix

\* The bytes send_command writes for a command.
\*   LAN, USB: command + '\n'
\*   Serial:   if not command.endswith('\r\n'): command += '\r\n'
cmd_bytes(k, command) ==
  IF k = "Serial" /\ EndsWith(command, "\r\n") THEN command
  ELSE command \o Terminator(k)

\* send_command(command) with write outcome w in {"ok", "timeout", "error"}.
\* Result: the exception raised ("none" if it returns) and the transport
\* I/O it performed.
send_command(k, o, command, w) ==
  IF NotConnected(k, o) # "none"
  THEN [exc |-> NotConnected(k, o), io |-> <<>>]
  ELSE IF o.handle # "open"
  THEN [exc |-> "IOError", io |-> <<>>]
  ELSE [exc |-> IF w = "ok" THEN "none"
                ELSE IF w = "timeout" /\ k = "LAN" THEN "SendTimeout"
                ELSE "IOError",
        io |-> <<[op |-> "w", data |-> cmd_bytes(k, command),
                  ok |-> (w = "ok")]>>]

\* The text read_response extracts from what arrived, per transport.
\*   LAN:    recv(1) until LF or end of stream, CR skipped; a stall raises
\*           "Read timeout"; any other exception returns None.
\*   Serial: read_until(); decode()[:-2].replace(";", "\r\n"); strip().
\*   USB:    reports until LF, CR skipped; without LF the loop runs into
\*           its own "Read timeout", which its outer except turns to None.
Decoded(k, rx) ==
  CASE k = "LAN" ->
         IF rx.t \in {"line", "eof"}
         THEN [exc |-> "none", val |-> Some(DropCR(rx.text))]
         ELSE IF rx.t = "stall" THEN [exc |-> "ReadTimeout", val |-> None]
         ELSE [exc |-> "none", val |-> None]
    [] k = "Serial" ->
         IF rx.t = "error" THEN [exc |-> "none", val |-> None]
         ELSE [exc |-> "none",
               val |-> Some(Strip(ReplaceSemicolons(
                          DropLast2(rx.text \o TermBytes(rx.term)))))]
    [] k = "USB" ->
         IF rx.t = "line"
         THEN [exc |-> "none", val |-> Some(DropCR(rx.text))]
         ELSE [exc |-> "none", val |-> None]

read_response(k, o, rx) ==
  IF NotConnected(k, o) # "none"
  THEN [exc |-> NotConnected(k, o), val |-> None, io |-> <<>>]
  ELSE IF o.handle # "open"
  THEN [exc |-> "none", val |-> None, io |-> <<>>]
  ELSE [exc |-> Decoded(k, rx).exc, val |-> Decoded(k, rx).val,
        io |-> <<[op |-> "r", data |-> "", ok |-> (rx.t = "line")]>>]

\* query(command): send_command, then read_response.
query(k, o, command, w, rx) ==
  LET s == send_command(k, o, command, w)
      r == read_response(k, o, rx)
  IN  IF s.exc # "none"
      THEN [exc |-> s.exc, val |-> None, io |-> s.io]
      ELSE [exc |-> r.exc, val |-> r.val, io |-> s.io \o r.io]

\* ------------------------------------------------------ connect, disconnect
\* How opening the transport can end.  "nodev" (USB): list_devices() is
\* empty or device_index is out of range, before any device object exists.
OpenOutcomes(k) == IF k = "USB" THEN {"ok", "fail", "nodev"} ELSE {"ok", "fail"}

\* The outcome of the i-th write of a call.
W(env, i) == IF env.wfail = i THEN env.whow ELSE "ok"

\* The first part of connect(): the handle after the open attempt, and
\* whether the object the handle referred to before was dropped while it
\* still held its resource.
\*   LAN:    self.socket = socket.socket(...); self.socket.connect(...)
\*   Serial: self.connection = serial.Serial(...)   (assigned on success only)
\*   USB:    self.device = hid.device(); self.device.open(...)
open_transport(k, o, open) ==
  CASE k = "LAN" ->
         [handle |-> IF open = "ok" THEN "open" ELSE "unopened",
          leaked |-> HoldsResource(k, o.handle)]
    [] k = "Serial" ->
         IF open = "ok"
         THEN [handle |-> "open", leaked |-> HoldsResource(k, o.handle)]
         ELSE [handle |-> o.handle, leaked |-> FALSE]
    [] k = "USB" ->
         IF open = "nodev"
         THEN [handle |-> o.handle, leaked |-> FALSE]
         ELSE [handle |-> IF open = "ok" THEN "open" ELSE "unopened",
               leaked |-> HoldsResource(k, o.handle)]

\* The second part of connect(), run when the transport opened:
\*   self.send_command('*RST'); self.send_command('*CLS')
\*   response = self.query('*IDN?')
\*   if response and 'APS' in response: self.connected = True; return True
\*   else: return False
\* Every exception is caught by connect() and turned into return False.
handshake(k, o, env) ==
  LET rst == send_command(k, o, "*RST", W(env, 1))
      cls == send_command(k, o, "*CLS", W(env, 2))
      idn == query(k, o, "*IDN?", W(env, 3), env.rx)
  IN  IF rst.exc # "none"
      THEN [connected |-> o.connected, ret |-> FALSE, caught |-> rst.exc,
            io |-> rst.io]
      ELSE IF cls.exc # "none"
      THEN [connected |-> o.connected, ret |-> FALSE, caught |-> cls.exc,
            io |-> rst.io \o cls.io]
      ELSE IF idn.exc # "none"
      THEN [connected |-> o.connected, ret |-> FALSE, caught |-> idn.exc,
            io |-> rst.io \o cls.io \o idn.io]
      ELSE IF Truthy(idn.val) /\ ContainsAPS(idn.val.text)
      THEN [connected |-> TRUE, ret |-> TRUE, caught |-> "none",
            io |-> rst.io \o cls.io \o idn.io]
      ELSE [connected |-> o.connected, ret |-> FALSE, caught |-> "none",
            io |-> rst.io \o cls.io \o idn.io]

\* (connect() without its except clauses: the exception reaches the caller)
connect_uncaught(k, o, env) ==
  LET t  == open_transport(k, o, env.open)
      o1 == [connected |-> o.connected, handle |-> t.handle]
      h  == handshake(k, o1, env)
  IN  IF env.open # "ok"
      THEN [o |-> o1, leaked |-> t.leaked, ret |-> FALSE,
            exc |-> "OpenFailed", caught |-> "none", io |-> <<>>]
      ELSE [o |-> [connected |-> h.connected, handle |-> t.handle],
            leaked |-> t.leaked, ret |-> h.ret, exc |-> h.caught,
            caught |-> "none", io |-> h.io]

\* connect(): env = [open, wfail, whow, rx].
connect(k, o, env) ==
  LET t  == open_transport(k, o, env.open)
      o1 == [connected |-> o.connected, handle |-> t.handle]
      h  == handshake(k, o1, env)
  IN  IF env.open # "ok"
      THEN [o |-> o1, leaked |-> t.leaked, ret |-> FALSE, exc |-> "none",
            caught |-> "OpenFailed", io |-> <<>>]
      ELSE [o |-> [connected |-> h.connected, handle |-> t.handle],
            leaked |-> t.leaked, ret |-> h.ret, exc |-> "none",
            caught |-> h.caught, io |-> h.io]

\* disconnect() with write outcome w for the LOCAL command.
\*   LAN, USB: if self.socket: try: (if self.connected: send LOCAL);
\*             close() / except: pass / finally: connected = False,
\*             socket = None
\*   Serial:   if self.connection and self.connection.is_open:
\*             send LOCAL; close(); connected = False      (no try)
\* closed: close() was called on the handle; leaked: the reference was
\* dropped while the object still held its resource.  The I/O ends with
\* the close when there was one.
Close == <<[op |-> "c", data |-> "", ok |-> TRUE]>>

disconnect(k, o, w) ==
  LET loc == send_command(k, o, "LOCAL", w)
  IN  IF k = "Serial"
      THEN IF o.handle # "open"
           THEN [o |-> o, closed |-> FALSE, leaked |-> FALSE,
                 exc |-> "none", io |-> <<>>]
           ELSE IF loc.exc # "none"
           THEN [o |-> o, closed |-> FALSE, leaked |-> FALSE,
                 exc |-> loc.exc, io |-> loc.io]
           ELSE [o |-> [connected |-> FALSE, handle |-> "closed"],
                 closed |-> TRUE, leaked |-> FALSE,
                 exc |-> "none", io |-> loc.io \o Close]
      ELSE IF o.handle = "None"
           THEN [o |-> o, closed |-> FALSE, leaked |-> FALSE,
                 exc |-> "none", io |-> <<>>]
           ELSE IF o.connected /\ loc.exc # "none"
           THEN [o |-> [connected |-> FALSE, handle |-> "None"],
                 closed |-> FALSE, leaked |-> HoldsResource(k, o.handle),
                 exc |-> "none", io |-> loc.io]
           ELSE [o |-> [connected |-> FALSE, handle |-> "None"],
                 closed |-> TRUE, leaked |-> FALSE, exc |-> "none",
                 io |-> (IF o.connected THEN loc.io ELSE <<>>) \o Close]

\* --------------------------------------------------------- measurements
\* channel.lower() on the channel labels of the instrument.
Lower(channel) ==
  CASE channel = "CH1" -> "ch1" [] channel = "CH2" -> "ch2"
    [] channel = "CH3" -> "ch3" [] channel = "CH4" -> "ch4"
    [] channel = "VPA1" -> "vpa1" [] channel = "VPA2" -> "vpa2"
    [] channel = "VPA3" -> "vpa3"

\* m2000_param: V -> VOLTS, A -> AMPS, W -> WATTS, any other code as it is.
m2000_param(param) ==
  CASE param = "V" -> "VOLTS" [] param = "A" -> "AMPS"
    [] param = "W" -> "WATTS" [] OTHER -> param

\* sep.join(fields)
RECURSIVE Join(_, _)
Join(fields, sep) ==
  IF fields = <<>> THEN ""
  ELSE IF Len(fields) = 1 THEN fields[1]
  ELSE fields[1] \o sep \o Join(Tail(fields), sep)

\* for param in parameters: for channel in channels:
\*     read_fields.append(f"READ?,{channel.lower()}:{m2000_param}:ACDC")
RECURSIVE read_fields(_, _, _, _)
read_fields(channels, parameters, pi, ci) ==
  IF pi > Len(parameters) THEN <<>>
  ELSE IF ci > Len(channels) THEN read_fields(channels, parameters, pi + 1, 1)
  ELSE <<"READ?," \o Lower(channels[ci]) \o ":"
           \o m2000_param(parameters[pi]) \o ":ACDC">>
         \o read_fields(channels, parameters, pi, ci + 1)

\* command = ";".join(read_fields)
read_command(channels, parameters) ==
  Join(read_fields(channels, parameters, 1, 1), ";")

\* A Python dict as the sequence of its (key, value) items in insertion
\* order.  d[key] = value: an existing key keeps its place.
DictKeys(d) == [i \in 1..Len(d) |-> d[i].key]
HasKey(d, key) == \E i \in 1..Len(d) : d[i].key = key
DictGet(d, key) == d[CHOOSE i \in 1..Len(d) : d[i].key = key].value
DictSet(d, key, value) ==
  IF HasKey(d, key)
  THEN [i \in 1..Len(d) |->
          IF d[i].key = key THEN [key |-> key, value |-> value] ELSE d[i]]
  ELSE Append(d, [key |-> key, value |-> value])

\* f"{channel}_{param}"
Key(channel, param) == channel \o "_" \o param

\* idx = 0
\* for param in parameters:
\*     for channel in channels:
\*         if idx < len(values):
\*             try: results[key] = float(values[idx])
\*             except ValueError: results[key] = values[idx]
\*             idx += 1
RECURSIVE decode_loop(_, _, _, _, _, _, _)
decode_loop(values, channels, parameters, pi, ci, idx, results) ==
  IF pi > Len(parameters) THEN results
  ELSE IF ci > Len(channels)
  THEN decode_loop(values, channels, parameters, pi + 1, 1, idx, results)
  ELSE IF idx < Len(values)
  THEN decode_loop(values, channels, parameters, pi, ci + 1, idx + 1,
                   DictSet(results, Key(channels[ci], parameters[pi]),
                           Coerce(values[idx + 1])))
  ELSE decode_loop(values, channels, parameters, pi, ci + 1, idx, results)

\* (the loops nested the other way round: channel-major)
RECURSIVE decode_loop_channel_major(_, _, _, _, _, _, _)
decode_loop_channel_major(values, channels, parameters, pi, ci, idx, results) ==
  IF ci > Len(channels) THEN results
  ELSE IF pi > Len(parameters)
  THEN decode_loop_channel_major(values, channels, parameters, 1, ci + 1,
                                 idx, results)
  ELSE IF idx < Len(values)
  THEN decode_loop_channel_major(values, channels, parameters, pi + 1, ci,
                                 idx + 1,
                                 DictSet(results,
                                         Key(channels[ci], parameters[pi]),
                                         Coerce(values[idx + 1])))
  ELSE decode_loop_channel_major(values, channels, parameters, pi + 1, ci,
                                 idx, results)

decode_channel_major(response, channels, parameters) ==
  decode_loop_channel_major(Split(response), channels, parameters, 1, 1, 0,
                            <<>>)

\* (a decoder that leaves out the fields that are not numbers)
RECURSIVE decode_loop_skip_text(_, _, _, _, _, _, _)
decode_loop_skip_text(values, channels, parameters, pi, ci, idx, results) ==
  IF pi > Len(parameters) THEN results
  ELSE IF ci > Len(channels)
  THEN decode_loop_skip_text(values, channels, parameters, pi + 1, 1, idx,
                             results)
  ELSE IF idx < Len(values)
  THEN decode_loop_skip_text(values, channels, parameters, pi, ci + 1,
                             idx + 1,
                             IF IsFloat(values[idx + 1])
                             THEN DictSet(results,
                                          Key(channels[ci], parameters[pi]),
                                          Coerce(values[idx + 1]))
                             ELSE results)
  ELSE decode_loop_skip_text(values, channels, parameters, pi, ci + 1, idx,
                             results)

decode_skip_text(response, channels, parameters) ==
  decode_loop_skip_text(Split(response), channels, parameters, 1, 1, 0, <<>>)

\* values = response.split(','); results = {}; the loop above.
decode(response, channels, parameters) ==
  decode_loop(Split(response), channels, parameters, 1, 1, 0, <<>>)

NoData == [some |-> FALSE, dict |-> <<>>]
Data(d) == [some |-> TRUE, dict |-> d]

\* get_measurement(channels, parameters): query the full read request;
\* "if response:" decode it and return the dict, else return None.  An
\* exception of the query propagates to the caller.  command is the
\* request built from the selection, read_command(channels, parameters).
get_measurement(k, o, command, channels, parameters, w, rx) ==
  LET q == query(k, o, command, w, rx)
  IN  IF q.exc # "none"
      THEN [exc |-> q.exc, ret |-> NoData, response |-> q.val, io |-> q.io]
      ELSE IF Truthy(q.val)
      THEN [exc |-> "none",
            ret |-> Data(decode(q.val.text, channels, parameters)),
            response |-> q.val, io |-> q.io]
      ELSE [exc |-> "none", ret |-> NoData, response |-> q.val, io |-> q.io]

\* check_errors(): error_code = self.query('*ERR?')
\*   if error_code and error_code != '0': return int(error_code)
\*   return 0
\* int() of a text that is not a run of digits raises ValueError; an
\* exception of the query propagates.
check_errors(k, o, w, rx) ==
  LET q == query(k, o, "*ERR?", w, rx)
  IN  IF q.exc # "none"
      THEN [exc |-> q.exc, code |-> 0, response |-> q.val, io |-> q.io]
      ELSE IF Truthy(q.val) /\ q.val.text # <<"0">>
      THEN IF IsFloat(q.val.text)
           THEN [exc |-> "none", code |-> ToNumber(q.val.text),
                 response |-> q.val, io |-> q.io]
           ELSE [exc |-> "ValueError", code |-> 0, response |-> q.val,
                 io |-> q.io]
      ELSE [exc |-> "none", code |-> 0, response |-> q.val, io |-> q.io]

\* ------------------------------------------------------------------ state
VARIABLES
  kind,       \* the transport of the client: LAN, Serial or USB
  connected,  \* self.connected
  handle,     \* self.socket / self.connection / self.device (see Handles)
  last,       \* the call of a client method that has just ended, until
              \* its caller has taken the result (Return)
  last_connect, \* how the most recent connect() ended: never, ok, failed
  session,    \* the locals of the running stream_data / stream_worker
  web_m2000,  \* M2000WebServer: self.m2000 is not None
  scan,       \* discover_m2000: its locals and the probe threads
  fmt,        \* format_measurement: its arguments and what it returned
  hid         \* M2000_USB: the HID reports of one send_command or
              \* read_response

vars ==
  <<kind, connected, handle, last, last_connect, session, web_m2000, scan,
    fmt, hid>>

Obj == [connected |-> connected, handle |-> handle]

WriteOutcomes == {"ok", "timeout", "error"}
NoEnv == [open |-> "ok", wfail |-> 0, whow |-> "error", rx |-> NoRx]

NoCall ==
  [op |-> "none", before |-> [connected |-> FALSE, handle |-> "None"],
   env |-> NoEnv, command |-> "", channels |-> <<>>, parameters |-> <<>>,
   ret |-> FALSE, exc |-> "none", caught |-> "none", closed |-> FALSE,
   leaked |-> FALSE, response |-> None, data |-> NoData, code |-> 0,
   io |-> <<>>]

NoSession ==
  [state |-> "idle", host |-> "client", pc |-> "top", channels |-> <<>>,
   parameters |-> <<>>, command |-> "", duration |-> 0, period |-> 1,
   log_file |-> FALSE, now |-> 0, sample_count |-> 0, printed |-> 0,
   reported |-> -1, phase |-> "first", iters |-> <<>>, end |-> "none",
   header |-> <<>>, answering |-> [channels |-> <<>>, parameters |-> <<>>],
   conn |-> 0, born |-> 0, workers |-> 0, connecting |-> FALSE,
   configured |-> 0]

\* discover_m2000 is not running.
NoScan ==
  [main |-> "idle", started |-> 0, joined |-> 0, host |-> <<>>, pc |-> <<>>,
   sock |-> <<>>, found |-> <<>>, result |-> <<>>]

\* format_measurement has not been called.
NoFmt == [called |-> FALSE]

\* No HID transfer is under way.
NoHid == [op |-> "none"]

\* After construction: __init__ of M2000_LAN / M2000_RS232 / M2000_USB.
Init ==
  /\ kind \in Kinds
  /\ connected = FALSE
  /\ handle = "None"
  /\ last = NoCall
  /\ last_connect = "never"
  /\ session = NoSession
  /\ web_m2000 = FALSE
  /\ scan = NoScan
  /\ fmt = NoFmt
  /\ hid = NoHid

\* The caller of the client's methods is between two calls: the previous
\* call has returned and its result is taken, it is not inside stream_data,
\* and the client is not owned by the web server.
CallerFree ==
  last.op = "none" /\ session.state = "idle" /\ session.host = "client"

\* The transfers a call can meet.  A call that the guard stops does no
\* I/O, so what the transport would have done is not a case of its own.
NoTransfer == [wfail |-> 0, whow |-> "error", rx |-> NoRx]
Offered(n, texts) ==
  IF NotConnected(kind, Obj) = "none" THEN Transfers(n, texts)
  ELSE {NoTransfer}

\* ---------------------------------------------------------------- calls
CallConnect ==
  /\ CallerFree
  /\ \E open \in OpenOutcomes(kind) :
     \E f \in IF open = "ok" THEN Transfers(3, IdnTexts) ELSE {NoTransfer} :
     \E env \in {[open |-> open, wfail |-> f.wfail, whow |-> f.whow,
                  rx |-> f.rx]} :
     \E r \in {connect(kind, Obj, env)} :
           /\ connected' = r.o.connected
           /\ handle' = r.o.handle
           /\ last' = [NoCall EXCEPT !.op = "connect", !.before = Obj,
                         !.env = env, !.ret = r.ret, !.exc = r.exc,
                         !.caught = r.caught, !.leaked = r.leaked,
                         !.io = r.io]
           /\ last_connect' = IF r.ret THEN "ok" ELSE "failed"
  /\ UNCHANGED <<scan, fmt, hid, kind, session, web_m2000>>

CallDisconnect ==
  /\ CallerFree
  /\ \E w \in WriteOutcomes :
     \E r \in {disconnect(kind, Obj, w)} :
           /\ connected' = r.o.connected
           /\ handle' = r.o.handle
           /\ last' = [NoCall EXCEPT !.op = "disconnect", !.before = Obj,
                         !.exc = r.exc, !.closed = r.closed,
                         !.leaked = r.leaked, !.io = r.io]
  /\ UNCHANGED <<scan, fmt, hid, kind, last_connect, session, web_m2000>>

\* Commands a caller sends or queries directly.
Commands == {"*RST", "*ERR?"}
\* Commands to which the caller has already put a terminator.
TerminatedCommands == {"*RST\n", "*RST\r\n"}

CallSendCommand ==
  /\ CallerFree
  /\ \E c \in Commands \cup TerminatedCommands, w \in WriteOutcomes :
     \E r \in {send_command(kind, Obj, c, w)} :
           last' = [NoCall EXCEPT !.op = "send_command", !.before = Obj,
                      !.command = c, !.exc = r.exc, !.io = r.io]
  /\ UNCHANGED <<scan, fmt, hid, kind, connected, handle, last_connect, session, web_m2000>>

CallReadResponse ==
  /\ CallerFree
  /\ \E f \in Offered(0, ReplyTexts) :
     \E r \in {read_response(kind, Obj, f.rx)} :
           last' = [NoCall EXCEPT !.op = "read_response", !.before = Obj,
                      !.env = [NoEnv EXCEPT !.rx = f.rx],
                      !.exc = r.exc, !.response = r.val, !.io = r.io]
  /\ UNCHANGED <<scan, fmt, hid, kind, connected, handle, last_connect, session, web_m2000>>

CallQuery ==
  /\ CallerFree
  /\ \E c \in Commands, f \in Offered(1, ReplyTexts) :
     \E r \in {query(kind, Obj, c, W(f, 1), f.rx)} :
           last' = [NoCall EXCEPT !.op = "query", !.before = Obj,
                      !.env = [NoEnv EXCEPT !.rx = f.rx],
                      !.command = c, !.exc = r.exc, !.response = r.val,
                      !.io = r.io]
  /\ UNCHANGED <<scan, fmt, hid, kind, connected, handle, last_connect, session, web_m2000>>

\* What the instrument answers to *ERR?: texts over a zero, a non-zero
\* digit and a letter.
ErrChars == {"0", "1", "x"}
ErrTexts == SeqsUpTo(ErrChars, MaxReplyLen)

CallCheckErrors ==
  /\ CallerFree
  /\ \E f \in Offered(1, ErrTexts) :
     \E r \in {check_errors(kind, Obj, W(f, 1), f.rx)} :
           last' = [NoCall EXCEPT !.op = "check_errors", !.before = Obj,
                      !.command = "*ERR?", !.exc = r.exc, !.code = r.code,
                      !.response = r.response, !.io = r.io]
  /\ UNCHANGED <<scan, fmt, hid, kind, connected, handle, last_connect, session, web_m2000>>

CallGetMeasurement ==
  /\ CallerFree
  /\ \E cs \in ChannelLists, ps \in ParameterLists :
     \E c \in {read_command(cs, ps)} :
     \E f \in Offered(1, ReplyTexts) :
     \E r \in {get_measurement(kind, Obj, c, cs, ps, W(f, 1), f.rx)} :
           last' = [NoCall EXCEPT !.op = "get_measurement", !.before = Obj,
                      !.channels = cs, !.parameters = ps,
                      !.command = c, !.exc = r.exc,
                      !.response = r.response,
                      !.data = r.ret, !.io = r.io]
  /\ UNCHANGED <<scan, fmt, hid, kind, connected, handle, last_connect, session, web_m2000>>

\* ------------------------------------------------------------ stream_data
\* Serial only:  for param: for channel: read_fields.append(f"{param}:{channel}")
RECURSIVE serial_fields(_, _, _, _)
serial_fields(channels, parameters, pi, ci) ==
  IF pi > Len(parameters) THEN <<>>
  ELSE IF ci > Len(channels)
  THEN serial_fields(channels, parameters, pi + 1, 1)
  ELSE <<parameters[pi] \o ":" \o channels[ci]>>
         \o serial_fields(channels, parameters, pi, ci + 1)

\* The full read request stream_data builds before its loop.
stream_command(k, channels, parameters) ==
  IF k = "Serial"
  THEN "READ? " \o Join(serial_fields(channels, parameters, 1, 1), ",")
  ELSE read_command(channels, parameters)

\* if sample_count == 0: query(command)  else: query('REREAD?')
next_command_full_always(sample_count, command) == command

next_command_count_from_one(sample_count, command) ==
  IF sample_count <= 1 THEN command ELSE "REREAD?"

next_command(sample_count, command) ==
  IF sample_count = 0 THEN command ELSE "REREAD?"

\* (a duration check that never ends the loop)
expired_never(duration, elapsed) == FALSE

\* if duration > 0 and (sample_start - start_time) > duration: break
expired(duration, elapsed) == duration > 0 /\ elapsed > duration

\* Time is counted in ticks of the clock since start_time.  duration: 0
\* (run until interrupted) or a bound; period: 1.0 / sample_rate.
Durations == {0, 2, 3}
Periods == {1, 2}

\* The ticks the query of one iteration can take.  With duration = 0 the
\* clock is never compared, and the time a query takes is not a case.
IoTicks(duration) == IF duration > 0 THEN 0..MaxIoTicks ELSE {0}

\* time.sleep at the end of an iteration that started at start and whose
\* body ended at t: the time the next iteration starts.
\*   LAN, USB: sleep_time = max(0, 1.0 / sample_rate - elapsed)
\*   Serial:   time.sleep(1.0 / sample_rate)
after_sleep(k, start, t, period) ==
  IF k = "Serial" THEN t + period
  ELSE IF t - start < period THEN start + period ELSE t

\* stream_data appends every sample to log_file (LAN, USB); stream_data of
\* the Serial client has no log_file parameter.
HasLog(k, log_file) == log_file /\ k # "Serial"

\* The selections streamed, and what the instrument answers while streaming:
\* nothing, one field, two fields.
StreamChannels == {<<"CH1">>, <<"CH1", "CH2">>}
StreamParameters == {<<"V">>, <<"V", "PF">>}
\* The web server streams self.channels = ['CH1'] unless configured.
WebChannels == {<<"CH1">>}
StreamTexts == {<<>>, <<"1">>, <<"x", ",", "1">>}

\* get_base_unit(parameter): unit_map.get(parameter, '')
get_base_unit(parameter) ==
  CASE parameter = "V" -> "V" [] parameter = "A" -> "A"
    [] parameter = "W" -> "W" [] parameter = "VA" -> "VA"
    [] parameter = "VAR" -> "VAR" [] parameter = "FREQ" -> "Hz"
    [] parameter = "PHASE" -> "deg" [] parameter = "THDF" -> "%"
    [] parameter = "THDSIG" -> "%" [] OTHER -> ""

\* A CSV line as the sequence of its columns.
\* create_csv_header: "Timestamp", then for param: for channel:
\*   f",{channel}_{param}({unit})" if unit else f",{channel}_{param}"
RECURSIVE header_columns(_, _, _, _, _)
header_columns(units, channels, parameters, pi, ci) ==
  IF pi > Len(parameters) THEN <<>>
  ELSE IF ci > Len(channels)
  THEN header_columns(units, channels, parameters, pi + 1, 1)
  ELSE LET unit == get_base_unit(parameters[pi])
           name == Key(channels[ci], parameters[pi])
       IN  <<IF units /\ unit # "" THEN name \o "(" \o unit \o ")"
             ELSE name>>
             \o header_columns(units, channels, parameters, pi, ci + 1)

create_csv_header(channels, parameters) ==
  <<"Timestamp">> \o header_columns(TRUE, channels, parameters, 1, 1)

\* The header stream_data writes: LAN create_csv_header; USB "Timestamp"
\* and f",{channel}_{param}" for param: for channel.
csv_header(k, channels, parameters) ==
  IF k = "USB"
  THEN <<"Timestamp">> \o header_columns(FALSE, channels, parameters, 1, 1)
  ELSE create_csv_header(channels, parameters)

\* LAN: csv_data = {}; idx = 0; for param: for channel:
\*   if idx < len(values): csv_data[f"{channel}_{param}"] = values[idx]; idx += 1
RECURSIVE csv_data(_, _, _, _, _, _, _)
csv_data(values, channels, parameters, pi, ci, idx, results) ==
  IF pi > Len(parameters) THEN results
  ELSE IF ci > Len(channels)
  THEN csv_data(values, channels, parameters, pi + 1, 1, idx, results)
  ELSE IF idx < Len(values)
  THEN csv_data(values, channels, parameters, pi, ci + 1, idx + 1,
                DictSet(results, Key(channels[ci], parameters[pi]),
                        values[idx + 1]))
  ELSE csv_data(values, channels, parameters, pi, ci + 1, idx, results)

\* format_csv_row: f"{timestamp:.3f}", then for param: for channel:
\*   value = data_dict.get(key, '')
\*   f",{float(value):.6g}" / f",{value}" on ValueError / "," if value == ''
TimeCell(timestamp) == [t |-> "time", v |-> timestamp]
EmptyCell == [t |-> "empty", v |-> 0]

RECURSIVE row_columns(_, _, _, _, _)
row_columns(data_dict, channels, parameters, pi, ci) ==
  IF pi > Len(parameters) THEN <<>>
  ELSE IF ci > Len(channels)
  THEN row_columns(data_dict, channels, parameters, pi + 1, 1)
  ELSE LET key == Key(channels[ci], parameters[pi])
           value == IF HasKey(data_dict, key) THEN DictGet(data_dict, key)
                    ELSE <<>>
       IN  <<IF value # <<>> THEN Coerce(value) ELSE EmptyCell>>
             \o row_columns(data_dict, channels, parameters, pi, ci + 1)

format_csv_row(timestamp, data_dict, channels, parameters) ==
  <<TimeCell(timestamp)>> \o row_columns(data_dict, channels, parameters, 1, 1)

\* The line stream_data appends for one sample.  LAN: format_csv_row of
\* csv_data; USB: f"{timestamp:.3f}" and f",{value}" for value in values.
csv_row(k, timestamp, values, channels, parameters) ==
  IF k = "USB"
  THEN <<TimeCell(timestamp)>>
         \o [i \in 1..Len(values) |-> [t |-> "str", v |-> values[i]]]
  ELSE format_csv_row(timestamp,
                      csv_data(values, channels, parameters, 1, 1, 0, <<>>),
                      channels, parameters)

\* One pass of a streaming loop: the commands it sent, whether it produced
\* a sample, how its REREAD? ended (data, nodata, raised; n/a if none was
\* sent), the time it started, how the sink took the sample, the number of
\* values in the reply, the keys of the sample decoded from it, the line
\* appended to the log and the time the body of the iteration took.
NewIter(c, start) ==
  [cmds |-> <<c>>, produced |-> FALSE, fast |-> "n/a", start |-> start,
   sink |-> "n/a", values |-> 0, keys |-> <<>>, row |-> <<>>, took |-> 0,
   asked |-> [channels |-> <<>>, parameters |-> <<>>], conn |-> 0]

CallStreamData ==
  /\ CallerFree
  /\ \E cs \in StreamChannels, ps \in StreamParameters, d \in Durations,
        p \in Periods,
        log \in IF kind = "Serial" THEN {FALSE} ELSE BOOLEAN :
       /\ d = 0 \/ d < p * MaxIters
       /\ session' = [NoSession EXCEPT !.state = "sampling", !.channels = cs,
                        !.parameters = ps, !.duration = d, !.period = p,
                        !.log_file = log,
                        !.header = IF HasLog(kind, log)
                                   THEN csv_header(kind, cs, ps) ELSE <<>>,
                        !.command = stream_command(kind, cs, ps)]
  /\ UNCHANGED <<scan, fmt, hid, kind, connected, handle, last, last_connect, web_m2000>>

InLoop == session.state = "sampling" /\ session.host = "client"

Stopped(why) == [session EXCEPT !.state = "stopped", !.end = why]

\* The duration check at the top of an iteration ends the loop (break);
\* nothing is printed after the loop.
StreamExpire ==
  /\ InLoop /\ session.pc = "top"
  /\ expired(session.duration, session.now)
  /\ session' = Stopped("duration")
  /\ UNCHANGED <<scan, fmt, hid, kind, connected, handle, last, last_connect, web_m2000>>

\* One iteration, first half: sample_start = time.time(), the duration
\* check passes, the send_command of self.query(...).  An exception leaves
\* stream_data (only KeyboardInterrupt is caught there).
StreamSend ==
  /\ InLoop /\ session.pc = "top"
  /\ ~expired(session.duration, session.now)
  /\ Len(session.iters) < MaxIters
  /\ \E w \in WriteOutcomes :
     \E c \in {next_command(session.sample_count, session.command)} :
     \E r \in {send_command(kind, Obj, c, w)} :
       LET it == NewIter(c, session.now)
       IN  session' =
             IF r.exc # "none"
             THEN [session EXCEPT !.state = "stopped", !.end = r.exc,
                     !.iters = Append(@, it)]
             ELSE [session EXCEPT !.pc = "reading", !.iters = Append(@, it)]
  /\ UNCHANGED <<scan, fmt, hid, kind, connected, handle, last, last_connect, web_m2000>>

\* One iteration, second half: read_response, "if response:" print the
\* sample, count it and append it to the log, then sleep until the next
\* iteration.  An exception of the read or of the log leaves stream_data.
StreamRead ==
  /\ InLoop /\ session.pc = "reading"
  /\ \E rx \in RxOf(StreamTexts), dt \in IoTicks(session.duration),
        sink \in IF HasLog(kind, session.log_file) THEN {"ok", "fail"}
                 ELSE {"ok"} :
     \E r \in {read_response(kind, Obj, rx)} :
       LET n == Len(session.iters)
           reread == session.iters[n].cmds = <<"REREAD?">>
           t == session.now + dt
           next == after_sleep(kind, session.iters[n].start, t,
                               session.period)
           logs == HasLog(kind, session.log_file)
           values == Split(r.val.text)
           keys == DictKeys(decode(r.val.text, session.channels,
                                   session.parameters))
           row == csv_row(kind, session.iters[n].start, values,
                          session.channels, session.parameters)
       IN  session' =
             IF r.exc # "none"
             THEN [session EXCEPT !.state = "stopped", !.end = r.exc,
                     !.now = t, !.iters[n].took = dt,
                     !.iters[n].fast = IF reread THEN "raised" ELSE "n/a"]
             ELSE IF Truthy(r.val) /\ logs /\ sink = "fail"
             THEN [session EXCEPT !.state = "stopped", !.end = "SinkError",
                     !.now = t, !.iters[n].took = dt,
                     !.sample_count = @ + 1, !.printed = @ + 1,
                     !.iters[n].produced = TRUE,
                     !.iters[n].values = Len(values),
                     !.iters[n].keys = keys,
                     !.iters[n].sink = "fail",
                     !.iters[n].fast = IF reread THEN "data" ELSE "n/a"]
             ELSE IF Truthy(r.val)
             THEN [session EXCEPT !.pc = "top", !.now = next,
                     !.iters[n].took = dt,
                     !.sample_count = @ + 1, !.printed = @ + 1,
                     !.iters[n].produced = TRUE,
                     !.iters[n].values = Len(values),
                     !.iters[n].keys = keys,
                     !.iters[n].row = IF logs THEN row ELSE <<>>,
                     !.iters[n].sink = IF logs THEN "ok" ELSE "n/a",
                     !.iters[n].fast = IF reread THEN "data" ELSE "n/a"]
             ELSE [session EXCEPT !.pc = "top", !.now = next,
                     !.iters[n].took = dt,
                     !.iters[n].fast = IF reread THEN "nodata" ELSE "n/a"]
  /\ UNCHANGED <<scan, fmt, hid, kind, connected, handle, last, last_connect, web_m2000>>

\* except KeyboardInterrupt: print(f"... Collected {sample_count} samples")
\* The interrupt is raised wherever the thread is, also inside a query.
StreamInterrupt ==
  /\ InLoop
  /\ session' = [Stopped("interrupt") EXCEPT
                   !.reported = session.sample_count]
  /\ UNCHANGED <<scan, fmt, hid, kind, connected, handle, last, last_connect, web_m2000>>

\* ---------------------------------------------------- web stream worker
\* The body of stream_worker's while loop, one transport operation at a
\* time (the worker runs in its own thread beside the server's).
\*   if sample_count == 0: data = get_measurement(channels, parameters)
\*   else: try: response = query('REREAD?')
\*              if response: data = <decoded response>
\*              else: data = get_measurement(channels, parameters)
\*         except: data = get_measurement(channels, parameters)
\*   if data: sample_count += 1, broadcast
\*   except Exception: print, sleep        (around the whole body)
\* Beside the worker's locals the session holds, for a web server:
\*   answering  the selection of the most recent full read request written
\*              to the connection (what the instrument answers REREAD? with);
\*              until one is written it is the server's own, and unused:
\*              REREAD? is sent only after a full request gave a sample
\*   conn       the number of the client object self.m2000 refers to
\*   born       conn when the worker followed here was started
\*   workers    the stream_worker threads started and not ended
\*   connecting connect_m2000 is waiting for connect() to return
\*   configured the 'configure' messages handled
\* and each iteration that produced a sample the selection the instrument
\* was answering (asked), and the client object it queried (conn).
InWorker == session.state = "sampling" /\ session.host = "web"

\* (a loop condition that never ends the worker)
running_always(m2000, is_connected) == TRUE

\* while self.m2000 and getattr(self.m2000, 'connected', False):
running(m2000, is_connected) == m2000 /\ is_connected

\* self.channels, self.parameters
Selection == [channels |-> session.channels, parameters |-> session.parameters]

\* The iteration ends: back to the loop condition.
WebDone(data, values, fast, sink) ==
  LET n == Len(session.iters)
      produced == data # <<>>
  IN  [session EXCEPT !.pc = "top", !.phase = "first",
         !.sample_count = IF produced THEN @ + 1 ELSE @,
         !.iters[n].produced = produced,
         !.iters[n].asked = IF produced THEN session.answering ELSE @,
         !.iters[n].values = values,
         !.iters[n].keys = DictKeys(data),
         !.iters[n].fast = fast,
         !.iters[n].sink = IF produced THEN sink ELSE "n/a"]

\* REREAD? gave nothing or raised: get_measurement is called next.
WebFallback(fast) ==
  [session EXCEPT !.pc = "top", !.phase = "fallback",
     !.iters[Len(session.iters)].fast = fast]

\* The send_command of the worker's next query: at the top of the loop
\* (while self.m2000 and self.m2000.connected) the full request or REREAD?,
\* in the fallback the full request.  self.m2000 may have become None.
WebSend ==
  /\ InWorker /\ session.pc = "top"
  /\ \/ /\ session.phase = "first"
        /\ running(web_m2000, connected)
        /\ Len(session.iters) < MaxWebIters
        /\ \E w \in WriteOutcomes :
           \E c \in {next_command(session.sample_count, session.command)} :
           \E r \in {send_command(kind, Obj, c, w)} :
           \E s \in {[session EXCEPT
                        !.iters = Append(@, [NewIter(c, 0) EXCEPT
                                               !.conn = session.conn])]} :
             session' =
               IF r.exc = "none"
               THEN [s EXCEPT !.pc = "reading",
                       !.answering = IF c = "REREAD?" THEN @ ELSE Selection]
               ELSE IF c = "REREAD?"
               THEN [s EXCEPT !.phase = "fallback",
                       !.iters[Len(s.iters)].fast = "raised"]
               ELSE s
     \/ /\ session.phase = "fallback"
        /\ \E w \in WriteOutcomes :
           \E r \in {send_command(kind, Obj, session.command, w)} :
           \E n \in {Len(session.iters)} :
             session' =
               IF ~web_m2000
               THEN [session EXCEPT !.phase = "first"]
               ELSE IF r.exc = "none"
               THEN [session EXCEPT !.pc = "reading",
                       !.answering = Selection,
                       !.iters[n].conn = session.conn,
                       !.iters[n].cmds = Append(@, session.command)]
               ELSE [session EXCEPT !.phase = "first",
                       !.iters[n].conn = session.conn,
                       !.iters[n].cmds = Append(@, session.command)]
  /\ UNCHANGED <<scan, fmt, hid, kind, connected, handle, last, last_connect, web_m2000>>

\* The read_response of the worker's query and what the worker does with
\* the reply.  The reply to REREAD? is decoded with self.channels and
\* self.parameters as they are now; get_measurement decodes with the lists
\* it was called with, those of the request it sent.
WebRead ==
  /\ InWorker /\ session.pc = "reading" /\ ~session.connecting
  /\ \E rx \in RxOf(StreamTexts), sink \in {"ok", "fail"} :
     \E r \in {read_response(kind, Obj, rx)} :
       LET n == Len(session.iters)
           c == session.iters[n].cmds[Len(session.iters[n].cmds)]
           sel == IF c = "REREAD?" THEN Selection ELSE session.answering
           data == IF r.exc = "none" /\ Truthy(r.val)
                   THEN decode(r.val.text, sel.channels, sel.parameters)
                   ELSE <<>>
           values == IF r.exc = "none" /\ Truthy(r.val)
                     THEN Len(Split(r.val.text)) ELSE 0
       IN  session' =
             IF c = "REREAD?" /\ session.phase = "first"
             THEN IF r.exc = "none" /\ Truthy(r.val)
                  THEN WebDone(data, values, "data", sink)
                  ELSE WebFallback(IF r.exc = "none" THEN "nodata"
                                   ELSE "raised")
             ELSE WebDone(data, values, session.iters[n].fast, sink)
  /\ UNCHANGED <<scan, fmt, hid, kind, connected, handle, last, last_connect, web_m2000>>

\* The loop condition is false: the worker thread ends.
WebExit ==
  /\ InWorker /\ session.pc = "top" /\ session.phase = "first"
  /\ ~running(web_m2000, connected)
  /\ session' = [Stopped("condition") EXCEPT !.workers = @ - 1]
  /\ UNCHANGED <<scan, fmt, hid, kind, connected, handle, last, last_connect, web_m2000>>

\* disconnect_m2000 (server thread): if self.m2000: try:
\*   self.m2000.disconnect() / except: pass / finally: self.m2000 = None
disconnect_m2000 ==
  /\ session.host = "web" /\ web_m2000
  /\ \E w \in WriteOutcomes :
     \E r \in {disconnect(kind, Obj, w)} :
           /\ connected' = r.o.connected
           /\ handle' = r.o.handle
           /\ last' = [NoCall EXCEPT !.op = "disconnect_m2000",
                         !.before = Obj, !.caught = r.exc, !.closed = r.closed,
                         !.leaked = r.leaked, !.io = r.io]
  /\ web_m2000' = FALSE
  /\ UNCHANGED <<scan, fmt, hid, kind, last_connect, session>>

\* handle_websocket_message, 'configure': self.channels, self.parameters
\* (and self.sample_rate) are replaced by those of the message.  The full
\* request is built from them whenever get_measurement is called.
WebSelections ==
  [channels : WebChannels \cup {<<"CH2">>}, parameters : StreamParameters]

Configure ==
  /\ session.host = "web" /\ session.configured < MaxConfigures
  /\ \E sel \in WebSelections :
       /\ sel # Selection
       /\ session' = [session EXCEPT !.channels = sel.channels,
                        !.configured = @ + 1,
                        !.parameters = sel.parameters,
                        !.command = read_command(sel.channels,
                                                 sel.parameters)]
  /\ UNCHANGED <<scan, fmt, hid, kind, connected, handle, last, last_connect,
                 web_m2000>>

\* connect_m2000 up to its await:
\*   self.m2000 = M2000_LAN(...) | M2000_RS232(...) | M2000_USB()
\* a new client object, not yet connected; the one self.m2000 referred to
\* is not disconnected, and a worker blocked in a read on it stays there
\* until connect() has returned.
connect_m2000 ==
  /\ session.host = "web" /\ ~session.connecting
  /\ session.conn < MaxConnects
  /\ connected' = FALSE
  /\ handle' = (IF kind = "Serial" THEN "closed" ELSE "None")
  /\ web_m2000' = TRUE
  /\ session' = [session EXCEPT !.conn = @ + 1, !.connecting = TRUE]
  /\ UNCHANGED <<scan, fmt, hid, kind, last, last_connect>>

\* connect_m2000 after its await, connect() having returned True as
\* documented or False:
\*   if success: self.start_data_streaming()
\*   else: self.m2000 = None
\* start_data_streaming returns at once when a 'disconnect' handled during
\* the await has set self.m2000 to None, and starts a new thread otherwise.
\* The session follows the first worker; those started later are counted.
connect_done ==
  /\ session.host = "web" /\ session.connecting
  /\ \E success \in BOOLEAN :
       /\ connected' = success
       /\ handle' = (IF success THEN "open" ELSE handle)
       /\ web_m2000' = (success /\ web_m2000)
       /\ last_connect' = (IF success THEN "ok" ELSE "failed")
       /\ session' = [session EXCEPT !.connecting = FALSE,
                        !.workers = IF success /\ web_m2000 THEN @ + 1
                                    ELSE @]
  /\ UNCHANGED <<scan, fmt, hid, kind, last>>

\* The caller takes the result of the call that ended, or stream_data has
\* returned: its locals are gone.
Return ==
  /\ last.op # "none" \/ session.state = "stopped"
  /\ last' = NoCall
  /\ session' = IF session.host = "web" THEN session ELSE NoSession
  /\ UNCHANGED <<scan, fmt, hid, kind, connected, handle, last_connect, web_m2000>>

\* -------------------------------------------------------- discover_m2000
\* The hosts probed: f"{network_base}.{i}" for i in range(1, 255), here
\* 1..MaxHosts.  What a host does with the probe: it refuses the
\* connection (connect_ex returns an error code), it accepts and never
\* answers (recv times out), or it accepts and answers *IDN? with a text,
\* received by the one recv(1024).
Hosts == 1..MaxHosts
ProbeTexts ==
  {<<>>, <<"A", "P">>, <<"A", "P", "S">>, <<" ", "A", "P", "S", "\n">>}
HostBehaviours ==
  {[accept |-> FALSE, answer |-> FALSE, text |-> <<>>],
   [accept |-> TRUE, answer |-> FALSE, text |-> <<>>]}
    \cup [accept : {TRUE}, answer : {TRUE}, text : ProbeTexts]

\* thread.join(): returns once the thread has ended.
join_no_wait(pc) == TRUE

join(pc) == pc = "ended"

\* found_devices = []; then the loop that creates the threads.
CallDiscover ==
  /\ scan.main = "idle"
  /\ scan' = [scan EXCEPT !.main = "starting",
                 !.pc = [i \in Hosts |-> "new"],
                 !.sock = [i \in Hosts |-> "none"]]
  /\ UNCHANGED <<kind, connected, handle, last, last_connect, session,
                 web_m2000, fmt, hid>>

\* thread = threading.Thread(target=check_ip, args=(ip,)); thread.start()
\* for the next i; after the last one the main thread goes on to the joins.
StartProbe ==
  /\ scan.main = "starting"
  /\ scan' = IF scan.started < MaxHosts
             THEN [scan EXCEPT !.started = @ + 1,
                     !.pc[scan.started + 1] = "started"]
             ELSE [scan EXCEPT !.main = "joining"]
  /\ UNCHANGED <<kind, connected, handle, last, last_connect, session,
                 web_m2000, fmt, hid>>

\* check_ip: test_socket = socket.socket(...);
\* result = test_socket.connect_ex((ip, 10733));
\* if result != 0: test_socket.close() and the thread ends.
\* sock[i]: the probe's socket is not created, open, or closed by close().
ProbeConnect(i) ==
  /\ scan.main # "idle" /\ scan.pc[i] = "started"
  /\ scan' = [scan EXCEPT !.pc[i] = IF scan.host[i].accept THEN "connected"
                                    ELSE "ended",
                 !.sock[i] = IF scan.host[i].accept THEN "open"
                             ELSE "closed"]
  /\ UNCHANGED <<kind, connected, handle, last, last_connect, session,
                 web_m2000, fmt, hid>>

\* check_ip: send(b'*IDN?\n'); response = recv(1024).decode().strip();
\* a timeout of recv is an exception, which "except: pass" swallows
\* (test_socket.close() is skipped); without 'APS' in response the
\* socket is closed and the thread ends.
ProbeIdentify(i) ==
  /\ scan.main # "idle" /\ scan.pc[i] = "connected"
  /\ scan' = [scan EXCEPT
                 !.pc[i] = IF scan.host[i].answer
                              /\ ContainsAPS(Strip(scan.host[i].text))
                           THEN "identified" ELSE "ended",
                 !.sock[i] = IF ~scan.host[i].answer THEN "open"
                             ELSE IF ContainsAPS(Strip(scan.host[i].text))
                             THEN "open" ELSE "closed"]
  /\ UNCHANGED <<kind, connected, handle, last, last_connect, session,
                 web_m2000, fmt, hid>>

\* check_ip: found_devices.append((ip, response)); print; close.
ProbeAppend(i) ==
  /\ scan.main # "idle" /\ scan.pc[i] = "identified"
  /\ scan' = [scan EXCEPT !.pc[i] = "ended", !.sock[i] = "closed",
                 !.found = Append(@, [ip |-> i,
                                      response |-> Strip(scan.host[i].text)])]
  /\ UNCHANGED <<kind, connected, handle, last, last_connect, session,
                 web_m2000, fmt, hid>>

\* for thread in threads: thread.join()    (one join)
JoinProbe ==
  /\ scan.main = "joining" /\ scan.joined < MaxHosts
  /\ join(scan.pc[scan.joined + 1])
  /\ scan' = [scan EXCEPT !.joined = @ + 1]
  /\ UNCHANGED <<kind, connected, handle, last, last_connect, session,
                 web_m2000, fmt, hid>>

\* return found_devices
DiscoverReturn ==
  /\ scan.main = "joining" /\ scan.joined = MaxHosts
  /\ scan' = [scan EXCEPT !.main = "returned", !.result = scan.found]
  /\ UNCHANGED <<kind, connected, handle, last, last_connect, session,
                 web_m2000, fmt, hid>>

\* ---------------------------------------------------- format_measurement
\* A value is None, a text float() rejects, or the float
\* sign * mant * 10^exp with mant in 0..9 (mant = 0: the value 0.0).
NoneValue == [t |-> "None", sign |-> 1, mant |-> 0, exp |-> 0]
TextValue == [t |-> "text", sign |-> 1, mant |-> 0, exp |-> 0]
Number(sign, mant, exp) ==
  [t |-> "float", sign |-> sign, mant |-> mant, exp |-> exp]
Zero == Number(1, 0, 0)
Mantissas == {1, 9}
FmtValues ==
  {NoneValue, TextValue, Zero}
    \cup {Number(sg, m, x) : sg \in {1, -1}, m \in Mantissas,
                              x \in (-MaxExp)..MaxExp}
FmtParameters ==
  {"V", "A", "W", "VA", "VAR", "PF", "PHASE", "FREQ", "THDF"}

\* The string f"{val * 10^shift:<spec>}{suffix}": the number shown, the
\* format of its decimals and what follows it.  ("u" stands for the micro
\* sign and "deg" for the degree sign.)
Shown(val, shift, spec, suffix) ==
  [t |-> "number", sign |-> val.sign, mant |-> val.mant,
   exp |-> IF val.mant = 0 THEN 0 ELSE val.exp + shift, spec |-> spec,
   suffix |-> suffix]

\* (a threshold test that sends the boundary to the lower bucket)
at_least_strict(val, k) == val.exp > k \/ (val.exp = k /\ val.mant > 1)

\* abs_val >= 10^k
at_least(val, k) == val.exp >= k

\* f"... {unit}" if include_units else f"..."
Suffix(include_units, text) == IF include_units THEN text ELSE ""

\* The ladder of V and A (from >= 1000 down) and of W, VA and VAR (from
\* >= 1000000 down).
ladder(val, unit, include_units, mega) ==
  IF mega /\ at_least(val, 6)
  THEN Shown(val, -6, ".3f", Suffix(include_units, " M" \o unit))
  ELSE IF at_least(val, 3)
  THEN Shown(val, -3, ".3f", Suffix(include_units, " k" \o unit))
  ELSE IF at_least(val, 0)
  THEN Shown(val, 0, ".3f", Suffix(include_units, " " \o unit))
  ELSE IF at_least(val, -3)
  THEN Shown(val, 3, ".1f", Suffix(include_units, " m" \o unit))
  ELSE IF at_least(val, -6)
  THEN Shown(val, 6, ".0f", Suffix(include_units, " u" \o unit))
  ELSE Shown(val, 9, ".0f", Suffix(include_units, " n" \o unit))

format_measurement(value, parameter, include_units) ==
  IF value.t = "None" \/ (value.t = "float" /\ value.mant = 0)
  THEN Shown(Zero, 0, ".3f",
             Suffix(include_units, " " \o get_base_unit(parameter)))
  ELSE IF value.t = "text"
  THEN [t |-> "str", sign |-> 1, mant |-> 0, exp |-> 0, spec |-> "",
        suffix |-> ""]
  ELSE IF parameter = "PF" THEN Shown(value, 0, ".4f", "")
  ELSE IF parameter = "PHASE"
  THEN Shown(value, 0, ".2f", Suffix(include_units, "deg"))
  ELSE IF parameter \in {"V", "A"}
  THEN ladder(value, get_base_unit(parameter), include_units, FALSE)
  ELSE IF parameter \in {"W", "VA", "VAR"}
  THEN ladder(value, get_base_unit(parameter), include_units, TRUE)
  ELSE IF parameter = "FREQ"
  THEN IF at_least(value, 6)
       THEN Shown(value, -6, ".3f", Suffix(include_units, " MHz"))
       ELSE IF at_least(value, 3)
       THEN Shown(value, -3, ".3f", Suffix(include_units, " kHz"))
       ELSE Shown(value, 0, ".3f", Suffix(include_units, " Hz"))
  ELSE Shown(value, 0, ".6g",
             IF include_units /\ get_base_unit(parameter) # ""
             THEN " " \o get_base_unit(parameter) ELSE "")

CallFormatMeasurement ==
  /\ fmt.called /\ ~fmt.done
  /\ fmt' = [fmt EXCEPT !.done = TRUE,
                !.out = format_measurement(fmt.value, fmt.parameter,
                                           fmt.include_units)]
  /\ UNCHANGED <<kind, connected, handle, last, last_connect, session,
                 web_m2000, scan, hid>>

\* ------------------------------------------------------- specifications
Next ==
  \/ CallConnect
  \/ CallDisconnect
  \/ CallSendCommand
  \/ CallReadResponse
  \/ CallQuery
  \/ CallGetMeasurement
  \/ CallCheckErrors
  \/ CallStreamData
  \/ StreamSend
  \/ StreamInterrupt
  \/ Return

\* The client from its construction on.
Spec == Init /\ [][Next]_vars

\* A client in the state connect() leaves when it returns True (transport
\* open, connected = True), used on its own or by the web server, whose
\* connect_m2000 has then started the stream worker.
InitReady ==
  /\ kind \in Kinds
  /\ connected = TRUE
  /\ handle = "open"
  /\ last = NoCall
  /\ last_connect = "ok"
  /\ \E cs \in WebChannels, ps \in StreamParameters, web \in BOOLEAN :
       /\ web_m2000 = web
       /\ session = IF web
                    THEN [NoSession EXCEPT !.state = "sampling",
                            !.host = "web", !.channels = cs,
                            !.parameters = ps,
                            !.command = read_command(cs, ps),
                            !.answering = [channels |-> cs,
                                           parameters |-> ps],
                            !.conn = 1, !.born = 1, !.workers = 1]
                    ELSE NoSession
  /\ scan = NoScan
  /\ fmt = NoFmt
  /\ hid = NoHid

NextReady ==
  \/ Next
  \/ StreamExpire
  \/ StreamRead
  \/ WebSend
  \/ WebRead
  \/ WebExit
  \/ disconnect_m2000

SpecReady == InitReady /\ [][NextReady]_vars

\* ================================================================ claims
\* The number of fields requested, and the i-th (channel, parameter) pair
\* in parameter-major, channel-minor order.
NFields(channels, parameters) == Len(channels) * Len(parameters)
PairKey(channels, parameters, i) ==
  Key(channels[((i - 1) % Len(channels)) + 1],
      parameters[((i - 1) \div Len(channels)) + 1])
NoRepeats(q) == \A i, j \in 1..Len(q) : i # j => q[i] # q[j]

\* connect() found the transport and the instrument in working order: the
\* open succeeded, no write fails, and *IDN? is answered by a line that
\* contains 'APS'.
InstrumentAnswersAPS ==
  /\ last.op = "connect"
  /\ last.env.open = "ok" /\ last.env.wfail = 0
  /\ last.env.rx.t = "line" /\ last.env.rx.term = "CRLF"
  /\ ContainsAPS(last.env.rx.text)

\* C1: connect() returns True and leaves connected = True whenever the
\* transport opens and the instrument answers *IDN? with a reply that
\* contains 'APS'.
C1_ConnectReachesReady ==
  InstrumentAnswersAPS => (last.ret /\ connected)

\* C2: during connect() the commands written are *RST, *CLS, *IDN?, in that
\* order, and the only read follows the write of *IDN?.
C2_HandshakeOrder ==
  (last.op = "connect" /\ last.env.open = "ok" /\ last.env.wfail = 0)
    => /\ Len(last.io) = 4
       /\ last.io[1] = [op |-> "w", data |-> "*RST" \o Terminator(kind), ok |-> TRUE]
       /\ last.io[2] = [op |-> "w", data |-> "*CLS" \o Terminator(kind), ok |-> TRUE]
       /\ last.io[3] = [op |-> "w", data |-> "*IDN?" \o Terminator(kind), ok |-> TRUE]
       /\ last.io[4].op = "r"

C4_DisconnectNotReady ==
  (last.op = "disconnect" /\ last.before.handle = "open"
     /\ ~last.before.connected)
    => (last.exc = "none" /\ last.closed)

\* C5: disconnect() on a Ready connection never raises and always releases
\* the transport handle, also when sending LOCAL fails.  (Released: closed
\* by close() or, at the least, the reference dropped, so that the
\* runtime's finalizer closes the object.)
C5_DisconnectReady ==
  (last.op = "disconnect" /\ last.before.handle = "open"
     /\ last.before.connected)
    => (last.exc = "none" /\ (last.closed \/ last.leaked))

\* C6: when the reply has fewer comma-separated fields than were requested,
\* get_measurement returns no sample (None), not a partial map.
C6_ShortReplyDropped ==
  (last.op = "get_measurement" /\ last.exc = "none" /\ Truthy(last.response)
     /\ Len(Split(last.response.text))
          < NFields(last.channels, last.parameters))
    => ~last.data.some

\* get_measurement read a reply with at least as many fields as requested.
FullReply ==
  /\ last.op = "get_measurement" /\ last.exc = "none"
  /\ Truthy(last.response)
  /\ Len(Split(last.response.text))
       >= NFields(last.channels, last.parameters)

\* The first position, in parameter-major order, of the pair with this key.
FirstPair(key) ==
  CHOOSE i \in 1..NFields(last.channels, last.parameters) :
    /\ PairKey(last.channels, last.parameters, i) = key
    /\ \A j \in 1..(i - 1) : PairKey(last.channels, last.parameters, j) # key

\* The returned map has exactly the keys of the pairs, inserted in
\* parameter-major order, and the key of the i-th pair holds the i-th field
\* of the reply.
PositionalMap ==
  /\ last.data.some
  /\ {last.data.dict[a].key : a \in 1..Len(last.data.dict)}
       = {PairKey(last.channels, last.parameters, i) :
            i \in 1..NFields(last.channels, last.parameters)}
  /\ \A a, b \in 1..Len(last.data.dict) :
       a < b => FirstPair(last.data.dict[a].key)
                  < FirstPair(last.data.dict[b].key)
  /\ \A i \in 1..NFields(last.channels, last.parameters) :
       DictGet(last.data.dict, PairKey(last.channels, last.parameters, i))
         = Coerce(Split(last.response.text)[i])

\* C7 as stated: for every non-empty channel and parameter list and every
\* reply with at least |parameters| x |channels| fields.
C7_Original == FullReply => PositionalMap

\* C7 (amended): the same for lists in which no channel and no parameter is
\* repeated.
C7_DecodePositional ==
  (FullReply /\ NoRepeats(last.channels) /\ NoRepeats(last.parameters))
    => PositionalMap

C7_Witness ==
  /\ FullReply /\ PositionalMap
  /\ last.channels = <<"CH1", "CH2">> /\ last.parameters = <<"V">>
  /\ last.response.text = <<"1", ",", "x">>

\* The iterations of the running or finished stream_data session.
ClientIters == IF session.host = "client" THEN session.iters ELSE <<>>
SentFull(it) == \E n \in 1..Len(it.cmds) : it.cmds[n] = session.command
SentReread(it) == \E n \in 1..Len(it.cmds) : it.cmds[n] = "REREAD?"
FullCount(it) ==
  Cardinality({n \in 1..Len(it.cmds) : it.cmds[n] = session.command})

\* C8: in stream_data, REREAD? is sent only after the full request has
\* produced a sample; the iteration that produces the first sample sends
\* the full request; every iteration after a produced sample sends REREAD?
\* and not the full request.
C8_RereadAfterFirstSample ==
  \A i \in 1..Len(ClientIters) :
    /\ SentReread(ClientIters[i])
         => \E j \in 1..(i - 1) :
              ClientIters[j].produced /\ SentFull(ClientIters[j])
    /\ (ClientIters[i].produced
          /\ \A j \in 1..(i - 1) : ~ClientIters[j].produced)
         => SentFull(ClientIters[i])
    /\ (\E j \in 1..(i - 1) : ClientIters[j].produced)
         => (SentReread(ClientIters[i]) /\ ~SentFull(ClientIters[i]))

C8_Witness ==
  /\ Len(ClientIters) >= 3
  /\ ~ClientIters[1].produced /\ SentFull(ClientIters[1])
  /\ ClientIters[2].produced /\ SentFull(ClientIters[2])
  /\ ClientIters[3].produced /\ SentReread(ClientIters[3])

IterDone(i) ==
  \/ i < Len(session.iters)
  \/ session.state = "stopped"
  \/ session.pc = "top" /\ session.phase = "first"

\* C10: whenever REREAD? returns no data for a sample, the full read
\* request is sent exactly once for that sample, in stream_data and in the
\* web worker.
C10_FallbackOnce ==
  \A i \in 1..Len(session.iters) :
    (session.iters[i].fast = "nodata" /\ IterDone(i))
      => FullCount(session.iters[i]) = 1

\* C11: the full read request that stream_data has written for the first
\* sample is the command get_measurement builds for the same channels and
\* parameters, on every transport.
C11_SameFullRequest ==
  (InLoop /\ session.pc = "reading" /\ Len(session.iters) = 1)
    => session.iters[1].cmds
         = <<read_command(session.channels, session.parameters)>>

\* C12: no command is started on the connection while a query of the web
\* stream worker is awaiting its reply.  (disconnect_m2000 leaves the
\* worker where it was, so a worker found reading right after it was
\* reading when LOCAL was written.)
C12_NoOverlap ==
  ~(/\ last.op = "disconnect_m2000"
    /\ \E i \in 1..Len(last.io) : last.io[i].op = "w"
    /\ InWorker /\ session.pc = "reading")

\* How a query of one sample can fail.
QueryErrors ==
  {"NotConnected", "AttributeError", "IOError", "SendTimeout", "ReadTimeout"}

\* C13: a failure of one sample's query never ends the streaming loop.
C13_LoopSurvivesQueryFailure ==
  session.state = "stopped" => session.end \notin QueryErrors

\* C14: a failure of the sample sink does not end the streaming loop.
C14_LoopSurvivesSinkFailure ==
  session.state = "stopped" => session.end # "SinkError"

\* C15: an external stop ends the streaming loop only between samples,
\* never while a query awaits its reply.
C15_StopBetweenSamples ==
  (session.state = "stopped" /\ session.end = "interrupt")
    => session.pc = "top"

\* C16: when stream_data has stopped by cancellation or by the duration
\* bound, the sample count has been reported and equals the number of
\* samples forwarded to the sink.
C16_CountReported ==
  (session.host = "client" /\ session.state = "stopped"
     /\ session.end \in {"interrupt", "duration"})
    => session.reported = session.printed
\* A stream_data session with a duration bound, running or stopped.
Bounded == session.host = "client" /\ session.duration > 0

\* Every iteration body started no later than duration after the start.
StartsInTime ==
  \A i \in 1..Len(session.iters) : session.iters[i].start <= session.duration

\* C17: with duration > 0 stream_data stops at the first iteration that
\* starts more than duration after the session start, and only then; with
\* duration = 0 it never stops on its own and ends only by cancellation.
C17_StopsOnDurationOnly ==
  session.host = "client" =>
    /\ Bounded => StartsInTime
    /\ (session.state = "stopped" /\ session.end = "duration")
         => (session.duration > 0 /\ session.now > session.duration)
    /\ (session.state = "stopped" /\ session.duration = 0)
         => session.end = "interrupt"

\* C18 as stated: with period 1 / r, at most r x d samples.
C18_Original ==
  Bounded => /\ session.sample_count * session.period <= session.duration
             /\ StartsInTime

\* C18 (amended): at most floor(r x d) + 1 samples, and no iteration body
\* starts later than d after the session start.
C18_SampleBound ==
  Bounded => /\ session.sample_count >= 1
                  => (session.sample_count - 1) * session.period
                       <= session.duration
             /\ StartsInTime

C18_Witness ==
  /\ Bounded /\ session.state = "stopped" /\ session.end = "duration"
  /\ session.duration = 3 /\ session.period = 2
  /\ session.sample_count = 2
\* read_response was called, passed its guard and read from the transport.
DidRead == last.op = "read_response" /\ last.io # <<>>

\* What the caller of read_response gets for a read that meets rx.
Outcome(rx) ==
  [exc |-> Decoded(kind, rx).exc, val |-> Decoded(kind, rx).val]

\* C19: a read that runs into its timeout ends in an outcome that no read
\* ending otherwise (a reply, also an empty one, or an error) can have.
C19_TimeoutDistinct ==
  (DidRead /\ last.env.rx.t = "stall")
    => \A rx \in RxOf(ReplyTexts) :
         rx.t # "stall"
           => Outcome(rx) # [exc |-> last.exc, val |-> last.response]

\* C20: a reply that ends without its terminator (stream closed or read
\* cut short) is not returned as a response that the caller decodes.
C20_UnterminatedDropped ==
  (DidRead /\ last.env.rx.t \in {"eof", "stall"})
    => ~(last.exc = "none" /\ Truthy(last.response))
\* The web server with a Ready client and its stream worker running.
InitWeb == InitReady /\ web_m2000

\* The worker and a 'disconnect' message.  The worker thread is scheduled
\* again and again, and each of its reads returns (with data or by its
\* timeout).
NextWorker ==
  \/ WebSend
  \/ WebRead
  \/ WebExit
  \/ disconnect_m2000

InitWorker == InitWeb /\ session.parameters = <<"V">>

SpecWorker ==
  InitWorker /\ [][NextWorker]_vars /\ WF_vars(WebSend) /\ WF_vars(WebRead)
    /\ WF_vars(WebExit)

\* The worker and 'configure' messages.
NextConfigure == NextWorker \/ Configure

SpecConfigure == InitWeb /\ [][NextConfigure]_vars

\* The worker and 'connect' and 'disconnect' messages.
NextReconnect ==
  \/ NextWorker
  \/ connect_m2000
  \/ connect_done

SpecReconnect == InitWeb /\ [][NextReconnect]_vars

\* M2000_USB.send_command below the guard: the HID reports it writes.
\* Bytes are numbers; a command is encoded to ASCII.
packet_size == 64

\* [0] * n (empty when n <= 0)
zeros(n) == [i \in 1..n |-> 0]

\* (a chunk as long as the whole report)
report_payload_full(size) == size

\* range(0, len(cmd_bytes), packet_size - 1),
\* cmd_bytes[i:i + packet_size - 1]: the bytes one report carries
report_payload(size) == size - 1

\* cmd_str = command + '\n'; cmd_bytes = cmd_str.encode('ascii')
usb_cmd_bytes(command) == command \o <<10>>

\* len(range(0, n, step))
range_len(n, step) == (n + step - 1) \div step

\* report = [0] + list(chunk) + [0] * (packet_size - len(chunk) - 1)
\* for the chunk starting at i (counted from 0)
hid_report(bytes, i) ==
  LET chunk == SubSeq(bytes, i + 1,
                      IF i + report_payload(packet_size) < Len(bytes)
                      THEN i + report_payload(packet_size) ELSE Len(bytes))
  IN  <<0>> \o chunk \o zeros(packet_size - Len(chunk) - 1)

\* The reports of one send_command, in the order written.
hid_reports(command) ==
  LET bytes == usb_cmd_bytes(command)
  IN  [k \in 1..range_len(Len(bytes), report_payload(packet_size)) |->
         hid_report(bytes, (k - 1) * report_payload(packet_size))]

\* The commands: every length up to MaxCmdLen, of letters in a pattern
\* that differs from one position to the next.
CmdShifts == 0..2
CmdText(n, shift) == [i \in 1..n |-> 65 + ((i + shift) % 7)]

\* send_command(command): self.device.write(report) for each report; a
\* write that returns a negative number raises after wfail - 1 reports
\* were written (wfail = 0: no write fails).
UsbSendCommand ==
  /\ hid.op = "command"
  /\ \E reports \in {hid_reports(hid.command)} :
     \E wfail \in 0..Len(reports) :
       hid' = [op |-> "send_command", command |-> hid.command,
               reports |-> IF wfail = 0 THEN reports
                           ELSE SubSeq(reports, 1, wfail - 1),
               exc |-> IF wfail = 0 THEN "none" ELSE "WriteFailed"]
  /\ UNCHANGED <<kind, connected, handle, last, last_connect, session,
                 web_m2000, scan, fmt>>

InitUsbWrite ==
  /\ kind = "USB"
  /\ connected = TRUE
  /\ handle = "open"
  /\ last = NoCall
  /\ last_connect = "ok"
  /\ session = NoSession
  /\ web_m2000 = FALSE
  /\ scan = NoScan
  /\ fmt = NoFmt
  /\ hid \in [op : {"command"},
              command : {CmdText(n, sh) : n \in 0..MaxCmdLen,
                                          sh \in CmdShifts}]

NextUsbWrite == UsbSendCommand

SpecUsbWrite == InitUsbWrite /\ [][NextUsbWrite]_vars

\* M2000_USB.read_response below the guard.  The instrument's reply is a
\* run of bytes (letters, CR, TAB) ended by LF; it arrives cut into
\* reports at any places, each report being byte 0, a piece of the reply
\* and zeros up to packet_size.
UsbReplyBytes == {65, 66, 13, 9}
UsbReplies == {body \o <<10>> : body \in SeqsUpTo(UsbReplyBytes, MaxUsbReply)}

\* The piece number k of reply when it is cut after the positions in cuts.
Piece(reply, cuts, k) ==
  LET at == {i \in 1..Len(reply) :
               1 + Cardinality({c \in cuts : c < i}) = k}
      lo == CHOOSE i \in at : \A j \in at : i <= j
      hi == CHOOSE i \in at : \A j \in at : i >= j
  IN  SubSeq(reply, lo, hi)

ReportsOf(reply, cuts) ==
  [k \in 1..Cardinality(cuts) + 1 |->
     <<0>> \o Piece(reply, cuts, k)
          \o zeros(packet_size - Len(Piece(reply, cuts, k)) - 1)]

\* for byte_val in data[1:]: from position i of data on.
\*   0: break; 10: return response; 13: continue;
\*   32..126: response += chr(byte_val); else: break  # Invalid character
RECURSIVE scan_report(_, _, _)
scan_report(data, i, response) ==
  IF i > Len(data) THEN [response |-> response, returned |-> FALSE]
  ELSE IF data[i] = 0 THEN [response |-> response, returned |-> FALSE]
  ELSE IF data[i] = 10 THEN [response |-> response, returned |-> TRUE]
  ELSE IF data[i] = 13 THEN scan_report(data, i + 1, response)
  ELSE IF 32 <= data[i] /\ data[i] <= 126
  THEN scan_report(data, i + 1, Append(response, data[i]))
  ELSE [response |-> response, returned |-> FALSE]

UsbReading == hid.op = "read_response" /\ hid.ret = "reading"

\* data = self.device.read(64, timeout_ms=100) gives the next report.
UsbReadReport ==
  /\ UsbReading /\ hid.next <= Len(hid.reports)
  /\ \E r \in {scan_report(hid.reports[hid.next], 2, hid.response)} :
       hid' = [hid EXCEPT !.next = @ + 1, !.response = r.response,
                 !.ret = IF r.returned THEN "string" ELSE "reading"]
  /\ UNCHANGED <<kind, connected, handle, last, last_connect, session,
                 web_m2000, scan, fmt>>

\* device.read gives nothing within 100 ms (if not data: continue) or
\* raises (time.sleep(0.01); continue).
UsbReadNothing ==
  /\ UsbReading /\ hid.empties < MaxEmptyReads
  /\ hid' = [hid EXCEPT !.empties = @ + 1]
  /\ UNCHANGED <<kind, connected, handle, last, last_connect, session,
                 web_m2000, scan, fmt>>

\* (time.time() - start_time) * 1000 > self.timeout at the top of the
\* loop: raise Exception("Read timeout"), caught: return None.
UsbReadTimeout ==
  /\ UsbReading
  /\ hid' = [hid EXCEPT !.ret = "None"]
  /\ UNCHANGED <<kind, connected, handle, last, last_connect, session,
                 web_m2000, scan, fmt>>

InitUsbRead ==
  /\ kind = "USB"
  /\ connected = TRUE
  /\ handle = "open"
  /\ last = NoCall
  /\ last_connect = "ok"
  /\ session = NoSession
  /\ web_m2000 = FALSE
  /\ scan = NoScan
  /\ fmt = NoFmt
  /\ \E reply \in UsbReplies :
     \E cuts \in SUBSET (1..Len(reply) - 1) :
       hid = [op |-> "read_response", reply |-> reply,
              reports |-> ReportsOf(reply, cuts), next |-> 1,
              empties |-> 0, response |-> <<>>, ret |-> "reading"]

NextUsbRead ==
  \/ UsbReadReport
  \/ UsbReadNothing
  \/ UsbReadTimeout

SpecUsbRead == InitUsbRead /\ [][NextUsbRead]_vars

\* discover_m2000 on a network whose hosts behave in any of the ways above.
InitDiscover ==
  /\ kind = "LAN"
  /\ connected = FALSE
  /\ handle = "None"
  /\ last = NoCall
  /\ last_connect = "never"
  /\ session = NoSession
  /\ web_m2000 = FALSE
  /\ scan \in [main : {"idle"}, started : {0}, joined : {0},
               host : [Hosts -> HostBehaviours], pc : {<<>>},
               sock : {<<>>}, found : {<<>>}, result : {<<>>}]
  /\ fmt = NoFmt
  /\ hid = NoHid

NextDiscover ==
  \/ CallDiscover
  \/ StartProbe
  \/ \E i \in Hosts : ProbeConnect(i)
  \/ \E i \in Hosts : ProbeIdentify(i)
  \/ \E i \in Hosts : ProbeAppend(i)
  \/ JoinProbe
  \/ DiscoverReturn

SpecDiscover == InitDiscover /\ [][NextDiscover]_vars

\* format_measurement called with any value, parameter and include_units.
InitUnits ==
  /\ kind = "LAN"
  /\ connected = FALSE
  /\ handle = "None"
  /\ last = NoCall
  /\ last_connect = "never"
  /\ session = NoSession
  /\ web_m2000 = FALSE
  /\ scan = NoScan
  /\ fmt \in [called : {TRUE}, done : {FALSE}, value : FmtValues,
              parameter : FmtParameters, include_units : BOOLEAN,
              out : {NoneValue}]
  /\ hid = NoHid

NextUnits == CallFormatMeasurement

SpecUnits == InitUnits /\ [][NextUnits]_vars

\* C21: connect() never raises; when it fails it returns False and a
\* connection that was not connected stays so.
C21_ConnectNeverRaises ==
  last.op = "connect"
    => /\ last.exc = "none"
       /\ ~last.ret => (~last.before.connected => ~connected)

\* connect() failed for each kind of reason: here the device is absent.
C21_Witness ==
  /\ last.op = "connect" /\ last.env.open = "nodev"
  /\ last.exc = "none" /\ ~last.ret /\ ~connected

\* The connection is Ready: connected, with the transport open.
Ready(o) == o.connected /\ o.handle = "open"

\* C22: disconnect() writes LOCAL exactly when the connection is Ready and
\* before it closes the handle; when the connection is not Ready it writes
\* nothing.
C22_LocalWhenReady ==
  last.op = "disconnect"
    => /\ Ready(last.before)
            => /\ Len(last.io) >= 1
               /\ last.io[1].op = "w"
               /\ last.io[1].data = "LOCAL" \o Terminator(kind)
               /\ \A i \in 2..Len(last.io) : last.io[i].op = "c"
       /\ ~Ready(last.before)
            => \A i \in 1..Len(last.io) : last.io[i].op # "w"

C22_Witness ==
  /\ last.op = "disconnect" /\ Ready(last.before)
  /\ Len(last.io) = 2 /\ last.io[1].op = "w" /\ last.io[1].ok
  /\ last.io[2].op = "c" /\ last.closed
\* get_measurement read a non-empty reply and returned.
Decoding ==
  /\ last.op = "get_measurement" /\ last.exc = "none"
  /\ Truthy(last.response)

\* The pairs that the reply has a field for.
Filled ==
  1..(IF Len(Split(last.response.text))
           < NFields(last.channels, last.parameters)
      THEN Len(Split(last.response.text))
      ELSE NFields(last.channels, last.parameters))

\* The last field of the reply that belongs to the key of the i-th pair.
LastField(i) ==
  CHOOSE j \in Filled :
    /\ PairKey(last.channels, last.parameters, j)
         = PairKey(last.channels, last.parameters, i)
    /\ \A n \in Filled :
         PairKey(last.channels, last.parameters, n)
           = PairKey(last.channels, last.parameters, i) => n <= j

\* C24: a field that is not a number is stored under its key as the raw
\* string; decoding does not fail, and every other field keeps its key and
\* its value.
C24_TextFieldKept ==
  Decoding =>
    /\ last.data.some
    /\ \A i \in Filled :
         LET key == PairKey(last.channels, last.parameters, i)
             f == Split(last.response.text)[LastField(i)]
         IN  /\ HasKey(last.data.dict, key)
             /\ DictGet(last.data.dict, key)
                  = IF IsFloat(f) THEN [t |-> "float", v |-> ToNumber(f)]
                    ELSE [t |-> "str", v |-> f]

C24_Witness ==
  /\ Decoding
  /\ last.channels = <<"CH1", "CH2">> /\ last.parameters = <<"V">>
  /\ last.response.text = <<"x", ",", "1">>
  /\ last.data.dict = <<[key |-> "CH1_V", value |-> [t |-> "str", v |-> <<"x">>]],
                        [key |-> "CH2_V", value |-> [t |-> "float", v |-> 1]]>>
\* C25: for every reply to *ERR? check_errors returns without raising, 0
\* for the reply '0' and the integer code otherwise, and leaves the
\* connection Ready.
C25_CheckErrorsReturns ==
  (last.op = "check_errors" /\ Ready(last.before) /\ last.response.some)
    => /\ last.exc = "none"
       /\ last.response.text = <<"0">> => last.code = 0
       /\ connected /\ handle = "open"

\* C26: two consecutive REREAD? samples of one session (the selection
\* does not change inside a session) whose replies both carry at least the
\* requested number of fields have the same keys in the same order,
\* whatever the values are.
RereadSample(i) ==
  session.iters[i].cmds = <<"REREAD?">> /\ session.iters[i].fast = "data"
CarriesAll(i) ==
  session.iters[i].values >= NFields(session.channels, session.parameters)
C26_SameKeys ==
  \A i \in 1..(Len(session.iters) - 1) :
    (RereadSample(i) /\ RereadSample(i + 1) /\ CarriesAll(i)
       /\ CarriesAll(i + 1))
      => session.iters[i].keys = session.iters[i + 1].keys

C26_Witness ==
  /\ Len(session.iters) = 3
  /\ session.channels = <<"CH1">> /\ session.parameters = <<"V">>
  /\ RereadSample(2) /\ RereadSample(3)
  /\ session.iters[2].values = 1 /\ session.iters[3].values = 2
  /\ session.iters[2].keys = <<"CH1_V">>
  /\ session.iters[3].keys = <<"CH1_V">>

\* C27: every line appended to the CSV log has as many columns as the
\* header, 1 + |parameters| x |channels|, for every reply.
C27_RowMatchesHeader ==
  \A i \in 1..Len(session.iters) :
    session.iters[i].row # <<>>
      => /\ Len(session.header)
              = 1 + NFields(session.channels, session.parameters)
         /\ Len(session.iters[i].row) = Len(session.header)

\* C30: in a client's streaming loop the next iteration starts
\* max(1/rate, t) after the start of this one, t being the time the body of
\* this iteration took.
C30_PeriodIsMax ==
  session.host = "client" =>
    \A i \in 1..(Len(session.iters) - 1) :
      session.iters[i + 1].start
        = session.iters[i].start
            + (IF session.iters[i].took > session.period
               THEN session.iters[i].took ELSE session.period)

\* C23: discover_m2000 returns only after every probe has ended, and its
\* result has exactly one (address, identity) entry for each host that
\* accepted the connection and answered *IDN? with a reply containing
\* 'APS', and no entry for any other host, in every interleaving.
Identified(i) ==
  /\ scan.host[i].accept /\ scan.host[i].answer
  /\ ContainsAPS(scan.host[i].text)
EntriesOf(i) == {j \in 1..Len(scan.result) : scan.result[j].ip = i}
C23_DiscoverExact ==
  scan.main = "returned"
    => /\ \A i \in Hosts : scan.pc[i] = "ended"
       /\ \A i \in Hosts :
            Cardinality(EntriesOf(i)) = IF Identified(i) THEN 1 ELSE 0
       /\ \A j \in 1..Len(scan.result) :
            /\ scan.result[j].ip \in Hosts
            /\ scan.result[j].response
                 = Strip(scan.host[scan.result[j].ip].text)

C23_Witness ==
  /\ scan.main = "returned"
  /\ Len(scan.result) = 2
  /\ scan.result[1].ip = 2 /\ scan.result[2].ip = 1
  /\ Identified(1) /\ Identified(2)

\* C28 (as stated): V, A, W, VA and VAR are scaled by the decade
\* thresholds >= 10^6 (M), >= 10^3 (k), >= 1 (base), >= 10^-3 (m),
\* >= 10^-6 (micro), else nano, and FREQ by the upper three only; a value
\* on a decade boundary goes to the upper bucket and 0.0 V gives '0.000 V'.
FmtNumber == fmt.called /\ fmt.done /\ fmt.value.t = "float"
DecadePrefix(x, top) ==
  IF top >= 6 /\ x >= 6 THEN "M"
  ELSE IF x >= 3 THEN "k"
  ELSE IF x >= 0 THEN ""
  ELSE IF x >= -3 THEN "m"
  ELSE IF x >= -6 THEN "u"
  ELSE "n"
DecadeShift(prefix) ==
  CASE prefix = "M" -> -6 [] prefix = "k" -> -3 [] prefix = "" -> 0
    [] prefix = "m" -> 3 [] prefix = "u" -> 6 [] prefix = "n" -> 9
ScaledAs(prefix, unit) ==
  /\ fmt.out.t = "number"
  /\ fmt.out.suffix = IF fmt.include_units THEN " " \o prefix \o unit ELSE ""
  /\ fmt.out.mant = fmt.value.mant /\ fmt.out.sign = fmt.value.sign
  /\ fmt.out.exp = fmt.value.exp + DecadeShift(prefix)
UpperThree(x) == IF x >= 6 THEN "M" ELSE IF x >= 3 THEN "k" ELSE ""
ZeroVolts ==
  (FmtNumber /\ fmt.value.mant = 0 /\ fmt.parameter = "V"
     /\ fmt.include_units)
    => (fmt.out.mant = 0 /\ fmt.out.spec = ".3f" /\ fmt.out.suffix = " V")
C28_Original ==
  /\ (FmtNumber /\ fmt.value.mant # 0
        /\ fmt.parameter \in {"V", "A", "W", "VA", "VAR"})
       => ScaledAs(DecadePrefix(fmt.value.exp, 6), fmt.parameter)
  /\ (FmtNumber /\ fmt.value.mant # 0 /\ fmt.parameter = "FREQ")
       => ScaledAs(UpperThree(fmt.value.exp), "Hz")
  /\ ZeroVolts

\* C28 (amended): W, VA and VAR are scaled by the six decade buckets; V
\* and A by the lower five (k is their largest prefix, so 10^6 V gives
\* '1000.000 kV'); FREQ by the upper three only; a value on a decade
\* boundary goes to the upper bucket and 0.0 V gives '0.000 V'.
C28_DecadeBuckets ==
  /\ (FmtNumber /\ fmt.value.mant # 0 /\ fmt.parameter \in {"W", "VA", "VAR"})
       => ScaledAs(DecadePrefix(fmt.value.exp, 6), fmt.parameter)
  /\ (FmtNumber /\ fmt.value.mant # 0 /\ fmt.parameter \in {"V", "A"})
       => ScaledAs(DecadePrefix(fmt.value.exp, 3), fmt.parameter)
  /\ (FmtNumber /\ fmt.value.mant # 0 /\ fmt.parameter = "FREQ")
       => ScaledAs(UpperThree(fmt.value.exp), "Hz")
  /\ ZeroVolts

C28_Witness ==
  /\ FmtNumber /\ fmt.parameter = "V" /\ fmt.include_units
  /\ fmt.value = Number(1, 1, 3)
  /\ fmt.out = [t |-> "number", sign |-> 1, mant |-> 1, exp |-> 0,
                spec |-> ".3f", suffix |-> " kV"]

\* C29: for PF, and every value including 0 and None, format_measurement
\* returns a number with the same count of decimals and nothing after it.
C29_PowerFactorPlain ==
  (fmt.called /\ fmt.done /\ fmt.parameter = "PF"
     /\ fmt.value.t \in {"None", "float"})
    => /\ fmt.out.t = "number"
       /\ fmt.out.spec = ".4f"
       /\ fmt.out.suffix = ""

\* C38: when disconnect() has returned, connected is False; a send_command
\* or query made while connected is False fails with 'Not connected' and
\* does no transport I/O; a disconnect() called in the state a disconnect()
\* leaves does no transport I/O and changes nothing.
Disconnected(o) ==
  ~o.connected /\ o.handle = (IF kind = "Serial" THEN "closed" ELSE "None")
C38_DisconnectedStaysClosed ==
  /\ (last.op = "disconnect" /\ last.exc = "none") => ~connected
  /\ (last.op \in {"send_command", "query"} /\ ~last.before.connected)
       => (last.exc = "NotConnected" /\ last.io = <<>>)
  /\ (last.op = "disconnect" /\ Disconnected(last.before))
       => (last.exc = "none" /\ last.io = <<>> /\ Obj = last.before)

C38_Witness ==
  /\ last_connect = "ok"
  /\ last.op = "query" /\ Disconnected(last.before)
  /\ last.exc = "NotConnected" /\ last.io = <<>>

\* C39: when discover_m2000 returns, the socket of every probe has been
\* closed, whatever the probe met.
C39_ProbeSocketsClosed ==
  scan.main = "returned" => \A i \in Hosts : scan.sock[i] = "closed"

\* C34: what send_command writes ends with exactly one terminator of the
\* transport (LF on LAN and USB, CR LF on Serial), also for a command that
\* already ends with it, and send_command reads nothing.
C34_OneTerminator ==
  last.op = "send_command"
    => \A i \in 1..Len(last.io) :
         /\ last.io[i].op # "r"
         /\ last.io[i].op = "w"
              => /\ EndsWith(last.io[i].data, Terminator(kind))
                 /\ ~EndsWith(last.io[i].data,
                              Terminator(kind) \o Terminator(kind))

\* C33: query on the Serial transport returns the payload of the reply
\* without its terminator and without carriage returns, and with every
\* other character of the payload, whether the read ended with CR LF, with
\* LF alone or without terminator.
C33_SerialPayloadKept ==
  (kind = "Serial" /\ last.op = "query" /\ last.exc = "none"
     /\ last.env.rx.t \in {"line", "eof", "stall"} /\ Len(last.io) = 2)
    => /\ last.response.some
       /\ last.response.text = DropCR(last.env.rx.text)

\* C35: the keys of every sample of the web worker name the pairs of the
\* selection the instrument was answering, the one of the most recent full
\* read request written to the connection.
C35_KeysNameRequest ==
  session.host = "web" =>
    \A i \in 1..Len(session.iters) :
      \A j \in 1..Len(session.iters[i].keys) :
        /\ j <= NFields(session.iters[i].asked.channels,
                        session.iters[i].asked.parameters)
        /\ session.iters[i].keys[j]
             = PairKey(session.iters[i].asked.channels,
                       session.iters[i].asked.parameters, j)

\* C36: at most one stream worker is running, and a worker queries the
\* client object it was started for only.
C36_OneWorkerPerConnection ==
  session.host = "web" =>
    /\ session.workers <= 1
    /\ \A i \in 1..Len(session.iters) :
         session.iters[i].conn = session.born

\* C37: once disconnect_m2000 has run (self.m2000 is None) and no connect
\* follows, the worker ends, wherever in its iteration it was.
C37_WorkerEnds ==
  (session.host = "web" /\ ~web_m2000) ~> (session.state = "stopped")

\* disconnect_m2000 has run while the worker is between the write and the
\* read of REREAD?.
C37_Witness ==
  /\ session.host = "web" /\ ~web_m2000
  /\ last.op = "disconnect_m2000"
  /\ session.state = "sampling" /\ session.pc = "reading"
  /\ session.iters[Len(session.iters)].cmds = <<"REREAD?">>

\* What a receiver makes of the reports: the bytes after byte 0 of each,
\* in order, without the zeros that end the last report.
RECURSIVE ReportData(_)
ReportData(reports) ==
  IF reports = <<>> THEN <<>>
  ELSE SubSeq(Head(reports), 2, Len(Head(reports)))
         \o ReportData(Tail(reports))

RECURSIVE StripZeros(_)
StripZeros(bytes) ==
  IF bytes # <<>> /\ bytes[Len(bytes)] = 0
  THEN StripZeros(SubSeq(bytes, 1, Len(bytes) - 1))
  ELSE bytes

\* C31: every report written by the USB send_command has 64 bytes, the
\* first of them 0; when no write fails, a command of n bytes with its
\* line feed is sent in ceil(n / 63) reports, and the bytes 1..63 of the
\* reports, without the zero padding of the last, are the command followed
\* by one line feed.
C31_ReportFraming ==
  hid.op = "send_command" =>
    /\ \A k \in 1..Len(hid.reports) :
         Len(hid.reports[k]) = 64 /\ hid.reports[k][1] = 0
    /\ hid.exc = "none" =>
         /\ \E q \in 1..Len(hid.command) + 1 :
              /\ 63 * q >= Len(hid.command) + 1
              /\ 63 * (q - 1) < Len(hid.command) + 1
              /\ Len(hid.reports) = q
         /\ StripZeros(ReportData(hid.reports)) = hid.command \o <<10>>

\* A command of 126 bytes: with its line feed it needs a third report
\* that carries the line feed alone.
C31_Witness ==
  /\ hid.op = "send_command" /\ hid.exc = "none"
  /\ Len(hid.command) = 126
  /\ Len(hid.reports) = 3
  /\ hid.reports[3][2] = 10

\* The printable characters of the reply before its line feed.
IsPrintable(b) == 32 <= b /\ b <= 126
ReplyText(reply) == SelectSeq(SubSeq(reply, 1, Len(reply) - 1), IsPrintable)

\* C32: the string the USB read_response returns is made of the printable
\* characters of the reply before its line feed, in order, however the
\* reply was cut into reports, and it is returned when the report with the
\* line feed has been read.
C32_ReplyText ==
  (hid.op = "read_response" /\ hid.ret = "string") =>
    /\ hid.response = ReplyText(hid.reply)
    /\ hid.next = Len(hid.reports) + 1
====
